---- MODULE Spec2Model ----
(***************************************************************************)
(* A model of jellypatrol.py: the configuration read at import time, the   *)
(* per-session routing of check_and_kill_transcodes_for_server, the two    *)
(* decision functions check_video_transcode / check_audio_transcode, the   *)
(* action executor terminate_session and the scheduler loop of __main__.   *)
(*                                                                         *)
(* Strings that the code converts (lower(), upper(), endswith()) are       *)
(* sequences of one-character strings, so that the conversions are         *)
(* computed.  Strings that the code only compares for equality are TLA+    *)
(* strings.                                                                *)
(***************************************************************************)
EXTENDS Integers, Sequences, FiniteSets, TLC

VARIABLES
    CHECK_INTERVAL_SECONDS,      \* configuration, fixed after import
    KILL_STREAMS,
    CHECK_AUDIO_TRANSCODES,
    ALLOW_CONTAINER_CHANGES,
    IGNORE_STRM_FILES,
    WHITELISTED_USERS,
    RESOLUTION_POLICY,
    VIDEO_TRANSCODE_INDICATORS,
    AUDIO_TRANSCODE_INDICATORS,
    SERVERS,
    pc,                          \* position of the single thread of control
    srv,                         \* index in SERVERS of server_config
    sessions,                    \* the list returned by get_active_sessions
    idx,                         \* index in sessions of the loop variable session
    item_details,                \* what get_item_details returned for the session
    result,                      \* (should_terminate, reason_message) of the session
    log,                         \* remote calls and decisions of the current server pass
    fetches,                     \* the servers whose sessions were fetched this cycle
    unhandled,                   \* the servers whose pass raised this cycle
    terminated                   \* history: the sessions a stop was requested for

config == <<CHECK_INTERVAL_SECONDS, KILL_STREAMS, CHECK_AUDIO_TRANSCODES,
            ALLOW_CONTAINER_CHANGES, IGNORE_STRM_FILES, WHITELISTED_USERS,
            RESOLUTION_POLICY, VIDEO_TRANSCODE_INDICATORS,
            AUDIO_TRANSCODE_INDICATORS, SERVERS>>

vars == <<config, pc, srv, sessions, idx, item_details, result, log, fetches,
          unhandled, terminated>>

----------------------------------------------------------------------------
(* Bounds of the model.                                                    *)

MaxSessions == 2

MaxServers == 2

MaxReasons == 2

----------------------------------------------------------------------------
(* JSON values and Python strings.                                         *)

\* a key that is missing from a JSON object (dict.get returns its default)
Absent == <<"Absent">>

\* a key that is present with the JSON value null (dict.get returns None)
None == <<"None">>

\* Width/Height present with the value null
NoneInt == -1

UpperCase == <<"A","B","C","D","E","F","G","H","I","J","K","L","M",
               "N","O","P","Q","R","S","T","U","V","W","X","Y","Z">>

LowerCase == <<"a","b","c","d","e","f","g","h","i","j","k","l","m",
               "n","o","p","q","r","s","t","u","v","w","x","y","z">>

lower_char(c) ==
    IF \E i \in DOMAIN UpperCase : UpperCase[i] = c
    THEN LowerCase[CHOOSE i \in DOMAIN UpperCase : UpperCase[i] = c]
    ELSE c

upper_char(c) ==
    IF \E i \in DOMAIN LowerCase : LowerCase[i] = c
    THEN UpperCase[CHOOSE i \in DOMAIN LowerCase : LowerCase[i] = c]
    ELSE c

\* str.lower()
lower(s) == [i \in 1..Len(s) |-> lower_char(s[i])]

\* str.upper()
upper(s) == [i \in 1..Len(s) |-> upper_char(s[i])]

\* str.endswith(suffix)
endswith(s, suffix) ==
    /\ Len(s) >= Len(suffix)
    /\ SubSeq(s, Len(s) - Len(suffix) + 1, Len(s)) = suffix

\* dict.get(key, default) on a field that may be missing
get(field, default) == IF field = Absent THEN default ELSE field

\* x in list
contains(list, x) == \E i \in DOMAIN list : list[i] = x

\* sequences over S of length at most n
SeqUpTo(S, n) == UNION {[1..k -> S] : k \in 0..n}

----------------------------------------------------------------------------
(* Configuration (module level of jellypatrol.py).                         *)

\* RESOLUTION_THRESHOLDS.get(RESOLUTION_POLICY, (3840, 2160))
RESOLUTION_THRESHOLDS(policy) ==
    CASE policy = "4K"    -> <<3840, 2160>>
      [] policy = "1080P" -> <<1920, 1080>>
      [] policy = "ALL"   -> <<0, 0>>
      [] OTHER            -> <<3840, 2160>>

TARGET_WIDTH == RESOLUTION_THRESHOLDS(RESOLUTION_POLICY)[1]

TARGET_HEIGHT == RESOLUTION_THRESHOLDS(RESOLUTION_POLICY)[2]

\* the default of VIDEO_TRANSCODE_INDICATORS
DefaultVideoIndicators ==
    {"VideoCodecNotSupported", "VideoResolutionNotSupported",
     "VideoBitrateNotSupported", "VideoFramerateNotSupported",
     "VideoLevelNotSupported", "VideoProfileNotSupported",
     "AnamorphicVideoNotSupported", "VideoRangeNotSupported",
     "VideoRangeTypeNotSupported", "ContainerNotSupported",
     "ContainerBitrateExceedsLimit"}

\* the default of AUDIO_TRANSCODE_INDICATORS
DefaultAudioIndicators ==
    {"AudioCodecNotSupported", "AudioBitrateNotSupported",
     "AudioChannelsNotSupported", "AudioSampleRateNotSupported",
     "AudioBitDepthNotSupported"}

\* the two API-key placeholders of check_and_kill_transcodes_for_server
PlaceholderKeys == {"YOUR_JELLYFIN_API_KEY_HERE", "YOUR_EMBY_API_KEY_HERE"}

----------------------------------------------------------------------------
(* Session objects, as GET /Sessions returns them.                         *)
(*   session  = [Id, UserName, PlayState, NowPlayingItem, TranscodingInfo] *)
(*   Id       : "" when the key is missing or empty                        *)
(*   PlayState: [isNone, PlayMethod], PlayMethod "" when the key is missing*)
(*   NowPlayingItem: [present, Id, MediaType, Path, Container,             *)
(*                    MediaStreams], present = FALSE when missing or {},   *)
(*                    MediaStreams <<>> when the key is missing            *)
(*   TranscodingInfo: [present, otherKeys, TranscodeReasons]; otherKeys    *)
(*                    says whether the block has keys such as Width        *)
(*   stream   = [Type, Width, Height, VideoRange], Width/Height 0 when the *)
(*              key is missing (the default the code substitutes)          *)
(* Item details, as GET /Items/{id} returns them:                          *)
(*   [ok, keys, MediaSources, MediaStreams]; ok = FALSE when the request   *)
(*   failed (get_item_details returns None), keys = FALSE for {} ;         *)
(*   MediaSources is the list of the sources' MediaStreams lists.          *)

\* the default of session.get("UserName", "Unknown User")
UnknownUser == <<"U","n","k","n","o","w","n"," ","U","s","e","r">>

\* bool(transcoding_info): a missing, null or empty block is falsy
truthy_info(ti) == ti.present /\ (ti.otherKeys \/ ti.TranscodeReasons # Absent)

\* bool(item_details): None (failed request) and {} are falsy
truthy_details(details) == details.ok /\ details.keys

\* transcode_reasons of check_video_transcode / check_audio_transcode
transcode_reasons(session) ==
    IF truthy_info(session.TranscodingInfo)
    THEN get(session.TranscodingInfo.TranscodeReasons, <<>>)
    ELSE <<>>

\* (False, "")
NoReason == [kind |-> "", width |-> 0, height |-> 0,
             user_name |-> <<>>, reasons |-> <<>>]

Skip == [raised |-> FALSE, terminate |-> FALSE, reason |-> NoReason]

\* an exception that the function does not catch
Raised == [raised |-> TRUE, terminate |-> FALSE, reason |-> NoReason]

Terminate(reason) == [raised |-> FALSE, terminate |-> TRUE, reason |-> reason]

\* what the variables item_details and result hold outside a session's step
NoDetails == [ok |-> FALSE, keys |-> FALSE, MediaSources |-> <<>>,
              MediaStreams |-> <<>>]

----------------------------------------------------------------------------
(* is_strm_file, is_user_whitelisted.                                      *)

DotStrm == <<".","s","t","r","m">>

\* is_strm_file raises AttributeError when Path (or, if evaluated,
\* Container) is null: None has no lower()
is_strm_file_raises(now_playing_item) ==
    LET path == get(now_playing_item.Path, <<>>)
        container == get(now_playing_item.Container, <<>>)
    IN  \/ path = None
        \/ /\ ~endswith(lower(path), DotStrm)
           /\ container = None

is_strm_file(now_playing_item) ==
    LET path == get(now_playing_item.Path, <<>>)
        container == get(now_playing_item.Container, <<>>)
    IN  IF ~now_playing_item.present THEN FALSE
        ELSE \/ endswith(lower(path), DotStrm)
             \/ lower(container) = <<"s","t","r","m">>

is_user_whitelisted_exact(user_name) ==
    IF WHITELISTED_USERS = <<>> \/ user_name = <<>>
    THEN FALSE
    ELSE contains(WHITELISTED_USERS, user_name)

is_user_whitelisted(user_name) ==
    IF WHITELISTED_USERS = <<>> \/ user_name = <<>>
    THEN FALSE
    ELSE contains([i \in DOMAIN WHITELISTED_USERS |-> lower(WHITELISTED_USERS[i])],
                  lower(user_name))

----------------------------------------------------------------------------
(* check_video_transcode.                                                  *)

\* media_streams: the source's streams, or the session's own on fallback
media_streams(session, details) ==
    IF ~truthy_details(details)
    THEN session.NowPlayingItem.MediaStreams
    ELSE IF details.MediaSources # <<>>
         THEN details.MediaSources[1]
         ELSE details.MediaStreams

has_video_stream(streams) == \E i \in DOMAIN streams : streams[i].Type = "Video"

\* original_video_stream: the first stream of Type Video
original_video_stream(streams) ==
    streams[CHOOSE i \in DOMAIN streams :
                /\ streams[i].Type = "Video"
                /\ \A j \in 1..(i-1) : streams[j].Type # "Video"]

meets_threshold_and(original_width, original_height) ==
    original_width >= TARGET_WIDTH /\ original_height >= TARGET_HEIGHT

\* original_width >= TARGET_WIDTH or original_height >= TARGET_HEIGHT
meets_threshold(original_width, original_height) ==
    original_width >= TARGET_WIDTH \/ original_height >= TARGET_HEIGHT

\* the comparison raises TypeError on None; `or` does not evaluate the
\* height when the width already passes
threshold_raises(original_width, original_height) ==
    \/ original_width = NoneInt
    \/ /\ ~(original_width >= TARGET_WIDTH)
       /\ original_height = NoneInt

hdr_transcode_reasons == <<"VideoRangeNotSupported", "VideoRangeTypeNotSupported">>

is_hdr_tonemapping_indicated(video_range, reasons) ==
    /\ video_range # None
    /\ video_range # <<>>
    /\ upper(video_range) # <<"S","D","R">>
    /\ \E i \in DOMAIN hdr_transcode_reasons :
          /\ contains(reasons, hdr_transcode_reasons[i])
          /\ hdr_transcode_reasons[i] \in VIDEO_TRANSCODE_INDICATORS

\* video_range and video_range.upper() != "SDR" and any(reason in
\* transcode_reasons for reason in hdr_transcode_reasons)
is_hdr_tonemapping(video_range, reasons) ==
    /\ video_range # None
    /\ video_range # <<>>
    /\ upper(video_range) # <<"S","D","R">>
    /\ \E i \in DOMAIN hdr_transcode_reasons :
          contains(reasons, hdr_transcode_reasons[i])

container_reasons == <<"ContainerNotSupported", "ContainerBitrateExceedsLimit">>

filtered_reasons_always(reasons) ==
    SelectSeq(reasons, LAMBDA reason : ~contains(container_reasons, reason))

\* filtered_reasons: the container filter under ALLOW_CONTAINER_CHANGES
filtered_reasons(reasons) ==
    IF ALLOW_CONTAINER_CHANGES
    THEN SelectSeq(reasons, LAMBDA reason : ~contains(container_reasons, reason))
    ELSE reasons

video_fail_safe_any(session) ==
    transcode_reasons(session) = <<>>

\* not transcode_reasons and transcoding_info
video_fail_safe(session) ==
    transcode_reasons(session) = <<>> /\ truthy_info(session.TranscodingInfo)

\* is_video_component_transcoding, for a source that meets the threshold
is_video_component_transcoding(session, video_range) ==
    LET reasons == transcode_reasons(session)
    IN  IF video_fail_safe(session) THEN TRUE
        ELSE IF is_hdr_tonemapping(video_range, reasons) THEN TRUE
        ELSE \E i \in DOMAIN filtered_reasons(reasons) :
                 filtered_reasons(reasons)[i] \in VIDEO_TRANSCODE_INDICATORS

check_video_transcode(session, user_name, details) ==
    IF session.NowPlayingItem.Id = "" THEN Skip
    ELSE IF ~has_video_stream(media_streams(session, details)) THEN Skip
    ELSE LET stream == original_video_stream(media_streams(session, details))
             original_width == stream.Width
             original_height == stream.Height
             video_range == get(stream.VideoRange, <<"S","D","R">>)
         IN  IF threshold_raises(original_width, original_height) THEN Raised
             ELSE IF ~meets_threshold(original_width, original_height) THEN Skip
             ELSE IF is_video_component_transcoding(session, video_range)
                  THEN Terminate([kind |-> "video", width |-> original_width,
                                  height |-> original_height,
                                  user_name |-> user_name,
                                  reasons |-> transcode_reasons(session)])
                  ELSE Skip

----------------------------------------------------------------------------
(* check_audio_transcode.                                                  *)

is_audio_component_transcoding_filtered(session) ==
    LET reasons == filtered_reasons(transcode_reasons(session))
    IN  IF reasons = <<>> /\ truthy_info(session.TranscodingInfo) THEN TRUE
        ELSE \E i \in DOMAIN reasons : reasons[i] \in AUDIO_TRANSCODE_INDICATORS

\* is_audio_component_transcoding
is_audio_component_transcoding(session) ==
    LET reasons == transcode_reasons(session)
    IN  IF reasons = <<>> /\ truthy_info(session.TranscodingInfo) THEN TRUE
        ELSE \E i \in DOMAIN reasons : reasons[i] \in AUDIO_TRANSCODE_INDICATORS

check_audio_transcode(session, user_name) ==
    IF is_audio_component_transcoding(session)
    THEN Terminate([kind |-> "audio", width |-> 0, height |-> 0,
                    user_name |-> user_name,
                    reasons |-> transcode_reasons(session)])
    ELSE Skip

----------------------------------------------------------------------------
(* The values the inputs are drawn from.                                   *)

Stream(type, width, height, video_range) ==
    [Type |-> type, Width |-> width, Height |-> height, VideoRange |-> video_range]

Info(present, otherKeys, reasons) ==
    [present |-> present, otherKeys |-> otherKeys, TranscodeReasons |-> reasons]

Item(present, id, media_type, path, container, streams) ==
    [present |-> present, Id |-> id, MediaType |-> media_type, Path |-> path,
     Container |-> container, MediaStreams |-> streams]

Session(id, user_name, play_method, item, info) ==
    [Id |-> id, UserName |-> user_name,
     PlayState |-> [isNone |-> FALSE, PlayMethod |-> play_method],
     NowPlayingItem |-> item, TranscodingInfo |-> info]

Details(ok, keys, sources, streams) ==
    [ok |-> ok, keys |-> keys, MediaSources |-> sources, MediaStreams |-> streams]

SDR == <<"S","D","R">>

HDR10 == <<"H","D","R","1","0">>

NoInfo == Info(FALSE, FALSE, Absent)

NoItem == Item(FALSE, "", "", Absent, Absent, <<>>)

MkvPath == <<"/","a",".","m","k","v">>

StrmPath == <<"/","a",".","S","T","R","M">>

Mkv == <<"m","k","v">>

UserBo == <<"B","o">>

UserAL == <<"A","L">>

UHD == Stream("Video", 3840, 2160, SDR)

UHD_HDR == Stream("Video", 3840, 2160, HDR10)

FHD == Stream("Video", 1920, 1080, SDR)

AudioStream == Stream("Audio", 0, 0, Absent)

ReasonCodes ==
    {"VideoCodecNotSupported", "VideoRangeNotSupported",
     "VideoRangeTypeNotSupported", "ContainerNotSupported",
     "ContainerBitrateExceedsLimit", "AudioCodecNotSupported"}

\* VIDEO_TRANSCODE_INDICATORS / AUDIO_TRANSCODE_INDICATORS as configured
IndicatorChoices ==
    {<<DefaultVideoIndicators, DefaultAudioIndicators>>,
     <<DefaultVideoIndicators \ {"VideoRangeNotSupported", "VideoRangeTypeNotSupported"},
       {"AudioBitrateNotSupported"}>>,
     <<{"ContainerNotSupported"}, {"AudioCodecNotSupported", "ContainerNotSupported"}>>}

\* SERVERn_ENABLED / SERVERn_API_KEY of the environment, n = 1, 2, ...
ServerEnv ==
    SeqUpTo({[enabled |-> TRUE, api_key |-> "key"],
             [enabled |-> TRUE, api_key |-> "YOUR_JELLYFIN_API_KEY_HERE"],
             [enabled |-> TRUE, api_key |-> ""],
             [enabled |-> FALSE, api_key |-> ""]},
            MaxServers)

ServerUrl(server_num) ==
    CASE server_num = 1 -> "http://server1"
      [] server_num = 2 -> "http://server2"
      [] server_num = 3 -> "http://server3"
      [] OTHER          -> "http://server4"

\* load_servers_from_env: the enabled entries, in order
RECURSIVE load_servers(_, _)
load_servers(env, server_num) ==
    IF server_num > Len(env) \/ server_num > 20 THEN <<>>
    ELSE (IF env[server_num].enabled
          THEN <<[url |-> ServerUrl(server_num),
                  api_key |-> env[server_num].api_key, enabled |-> TRUE]>>
          ELSE <<>>) \o load_servers(env, server_num + 1)

load_servers_from_env(env) == load_servers(env, 1)

----------------------------------------------------------------------------
(* check_and_kill_transcodes_for_server: the routing of one session.       *)

user_name_of(session) == get(session.UserName, UnknownUser)

is_transcoding_not_direct(session) ==
    session.PlayState.PlayMethod \notin {"DirectPlay", "DirectStream"}

\* is_transcoding = play_state.get("PlayMethod") == "Transcode"
is_transcoding(session) == session.PlayState.PlayMethod = "Transcode"

audio_branch_unchecked(session) ==
    /\ session.NowPlayingItem.MediaType = "Audio"
    /\ is_transcoding(session)

\* elif media_type == "Audio" and is_transcoding and CHECK_AUDIO_TRANSCODES
audio_branch(session) ==
    /\ session.NowPlayingItem.MediaType = "Audio"
    /\ is_transcoding(session)
    /\ CHECK_AUDIO_TRANSCODES

video_branch_any_media(session) == is_transcoding(session)

\* if media_type == "Video" and is_transcoding
video_branch(session) ==
    /\ session.NowPlayingItem.MediaType = "Video"
    /\ is_transcoding(session)

\* where the body of `for session in sessions` takes the session:
\*   "continue"  no NowPlayingItem or no Id
\*   "whitelisted", "strm"  the two skips
\*   "raise"     an exception leaves the loop (is_strm_file on a null Path,
\*               play_state.get on a null PlayState)
\*   "video", "audio"  the two decision functions; "none" otherwise
route(session) ==
    IF ~session.NowPlayingItem.present \/ session.Id = "" THEN "continue"
    ELSE IF is_user_whitelisted(user_name_of(session)) THEN "whitelisted"
    ELSE IF IGNORE_STRM_FILES /\ is_strm_file_raises(session.NowPlayingItem)
         THEN "raise"
    ELSE IF IGNORE_STRM_FILES /\ is_strm_file(session.NowPlayingItem) THEN "strm"
    ELSE IF session.PlayState.isNone THEN "raise"
    ELSE IF video_branch(session) THEN "video"
    ELSE IF audio_branch(session) THEN "audio"
    ELSE "none"

----------------------------------------------------------------------------
(* terminate_session.                                                      *)

terminate_step_always_kills == "message"

\* if KILL_STREAMS: message, then stop; else: the dry-run line
terminate_step == IF KILL_STREAMS THEN "message" ELSE "dry_run"

after_message_if_sent(sent) == IF sent THEN "stop" ELSE "session"

\* send_message_to_session catches the request's failure and returns
\* False; terminate_session ignores the value and goes on to the stop
after_message(sent) == "stop"

----------------------------------------------------------------------------
(* The log of the current server pass: one record per remote call          *)
(* ("fetch", "lookup", "message", "stop"), per decision returned by a      *)
(* check function ("decision", ok = should_terminate) and per dry-run      *)
(* line ("dry_run").                                                       *)

Entry_first_server(kind, i, ok) ==
    [kind |-> kind, url |-> SERVERS[1].url, api_key |-> SERVERS[1].api_key,
     idx |-> i, sid |-> IF i \in DOMAIN sessions THEN sessions[i].Id ELSE "",
     ok |-> ok]

Entry(kind, i, ok) ==
    [kind |-> kind, url |-> SERVERS[srv].url, api_key |-> SERVERS[srv].api_key,
     idx |-> i, sid |-> IF i \in DOMAIN sessions THEN sessions[i].Id ELSE "",
     ok |-> ok]

\* the loop takes the next session
Advance ==
    /\ pc' = "session"
    /\ idx' = idx + 1
    /\ item_details' = NoDetails
    /\ result' = Skip
    /\ UNCHANGED <<srv, sessions, unhandled>>

\* the locals of check_and_kill_transcodes_for_server end with the call
EndOfPass ==
    /\ pc' = "cycle"
    /\ srv' = srv + 1
    /\ sessions' = <<>>
    /\ idx' = 1
    /\ item_details' = NoDetails
    /\ result' = Skip
    /\ log' = <<>>

Unhandled_uncaught ==
    /\ pc' = "crashed"
    /\ srv' = srv
    /\ sessions' = <<>>
    /\ idx' = 1
    /\ item_details' = NoDetails
    /\ result' = Skip
    /\ log' = <<>>
    /\ unhandled' = Append(unhandled, srv)

\* an exception leaves check_and_kill_transcodes_for_server and is caught
\* by the try of the loop over SERVERS, which takes the next server
Unhandled ==
    /\ EndOfPass
    /\ unhandled' = Append(unhandled, srv)

should_terminate_once(decision) ==
    /\ decision.terminate
    /\ [url |-> SERVERS[srv].url, sid |-> sessions[idx].Id] \notin terminated

\* if should_terminate: the flag the check function returned, and nothing
\* else
should_terminate(decision) == decision.terminate

\* should_terminate, reason_message = check_...(); if should_terminate:
\* terminate_session(...).  `entries` are the calls the check function made,
\* `details` what get_item_details returned to it.
Decide(decision, entries, details) ==
    IF decision.raised THEN Unhandled
    ELSE IF ~should_terminate(decision)
    THEN /\ log' = log \o entries \o <<Entry("decision", idx, FALSE)>>
         /\ Advance
    ELSE IF terminate_step = "message"
    THEN /\ log' = log \o entries \o <<Entry("decision", idx, TRUE)>>
         /\ pc' = "message"
         /\ result' = decision
         /\ item_details' = details
         /\ UNCHANGED <<srv, sessions, idx, unhandled>>
    ELSE /\ log' = log \o entries \o <<Entry("decision", idx, TRUE),
                                       Entry("dry_run", idx, TRUE)>>
         /\ Advance

----------------------------------------------------------------------------
(* Actions.                                                                *)

\* __main__, before the loop: exit when no server is enabled
Startup ==
    /\ pc = "startup"
    /\ pc' = IF Cardinality({i \in DOMAIN SERVERS : SERVERS[i].enabled}) = 0
             THEN "exited" ELSE "cycle"
    /\ UNCHANGED <<config, srv, sessions, idx, item_details, result, log, fetches,
          unhandled, terminated>>

api_key_unconfigured_empty_only(api_key) == api_key = ""

\* not api_key or api_key in [the two placeholders]
api_key_unconfigured(api_key) == api_key = "" \/ api_key \in PlaceholderKeys

\* one iteration of `for server_config in SERVERS`, up to the session loop:
\* the API-key check and get_active_sessions
CheckServer(response) ==
    /\ pc = "cycle"
    /\ srv <= Len(SERVERS)
    /\ item_details' = NoDetails
    /\ result' = Skip
    /\ IF ~SERVERS[srv].enabled
       THEN /\ srv' = srv + 1
            /\ UNCHANGED <<pc, sessions, idx, log, fetches>>
       ELSE IF api_key_unconfigured(SERVERS[srv].api_key)
       THEN /\ srv' = srv + 1
            /\ sessions' = <<>>
            /\ idx' = 1
            /\ log' = <<>>
            /\ UNCHANGED <<pc, fetches>>
       ELSE /\ fetches' = Append(fetches, srv)
            /\ log' = <<[Entry("fetch", 0, response.ok) EXCEPT !.sid = ""]>>
            /\ sessions' = IF response.ok THEN response.sessions ELSE <<>>
            /\ idx' = 1
            /\ IF ~response.ok \/ response.sessions = <<>>
               THEN srv' = srv + 1 /\ pc' = pc
               ELSE srv' = srv /\ pc' = "session"
    /\ UNCHANGED <<config, unhandled, terminated>>

\* the body of `for session in sessions`, up to its first remote call
ProcessSession ==
    /\ pc = "session"
    /\ idx <= Len(sessions)
    /\ LET session == sessions[idx]
           where == route(session)
       IN  CASE where = "raise" -> Unhandled
             [] where = "video" ->
                    IF session.NowPlayingItem.Id = ""
                    THEN Decide(check_video_transcode(session, user_name_of(session),
                                                      NoDetails), <<>>, NoDetails)
                    ELSE /\ pc' = "lookup"
                         /\ UNCHANGED <<srv, sessions, idx, item_details, result, log,
                                        unhandled>>
             [] where = "audio" ->
                    Decide(check_audio_transcode(session, user_name_of(session)),
                           <<>>, NoDetails)
             [] OTHER -> Advance /\ UNCHANGED log
    /\ UNCHANGED <<config, fetches, terminated>>

\* get_item_details answers; check_video_transcode runs to its return
GetItemDetails(details) ==
    /\ pc = "lookup"
    /\ LET session == sessions[idx]
       IN  Decide(check_video_transcode(session, user_name_of(session), details),
                  <<Entry("lookup", idx, details.ok)>>, details)
    /\ UNCHANGED <<config, fetches, terminated>>

\* terminate_session: send_message_to_session, which succeeds or fails
SendMessage(sent) ==
    /\ pc = "message"
    /\ log' = Append(log, Entry("message", idx, sent))
    /\ IF after_message(sent) = "stop"
       THEN /\ pc' = "stop"
            /\ UNCHANGED <<srv, sessions, idx, item_details, result, unhandled>>
       ELSE Advance
    /\ UNCHANGED <<config, fetches, terminated>>

StopPlayback_retry(stopped) ==
    /\ pc = "stop"
    /\ log' = Append(log, Entry("stop", idx, stopped))
    /\ IF stopped THEN Advance
       ELSE UNCHANGED <<pc, srv, sessions, idx, item_details, result, unhandled>>
    /\ terminated' = terminated \cup {[url |-> SERVERS[srv].url, sid |-> sessions[idx].Id]}
    /\ UNCHANGED <<config, fetches>>

\* terminate_session: the Playing/Stop request, which succeeds or fails;
\* a failure is caught and printed
StopPlayback(stopped) ==
    /\ pc = "stop"
    /\ log' = Append(log, Entry("stop", idx, stopped))
    /\ Advance
    /\ terminated' = terminated \cup {[url |-> SERVERS[srv].url, sid |-> sessions[idx].Id]}
    /\ UNCHANGED <<config, fetches>>

\* the loop over sessions ends; check_and_kill_transcodes_for_server returns
ServerDone ==
    /\ pc = "session"
    /\ idx > Len(sessions)
    /\ EndOfPass
    /\ UNCHANGED <<config, fetches, unhandled, terminated>>

\* time.sleep(seconds) raises ValueError for a negative number
sleep_raises(seconds) == seconds < 0

\* the loop over SERVERS ends: "Cycle complete", time.sleep, next cycle.
\* An exception of time.sleep is outside the try of the loop over SERVERS:
\* the except Exception around `while True` catches it and the script ends
CycleComplete ==
    /\ pc = "cycle"
    /\ srv > Len(SERVERS)
    /\ pc' = IF sleep_raises(CHECK_INTERVAL_SECONDS) THEN "critical" ELSE "cycle"
    /\ srv' = 1
    /\ sessions' = <<>>
    /\ idx' = 1
    /\ log' = <<>>
    /\ fetches' = <<>>
    /\ unhandled' = <<>>
    /\ UNCHANGED <<config, item_details, result, terminated>>

\* KeyboardInterrupt anywhere in the loop: "Script stopped by user."
Interrupt ==
    /\ pc \in {"cycle", "session", "lookup", "message", "stop"}
    /\ pc' = "stopped"
    /\ srv' = 1
    /\ sessions' = <<>>
    /\ idx' = 1
    /\ item_details' = NoDetails
    /\ result' = Skip
    /\ log' = <<>>
    /\ fetches' = <<>>
    /\ unhandled' = <<>>
    /\ UNCHANGED <<config, terminated>>

----------------------------------------------------------------------------
(* The whole program: Spec.                                                *)

\* the sessions a server reports in this specification: a transcoding 4K
\* video, a transcoding 4K video whose NowPlayingItem has a null Path and
\* whose only reason is an audio one, and an idle session (audio sessions
\* are in SpecSession and SpecEval)
PolledSessions ==
    LET video == Item(TRUE, "i1", "Video", MkvPath, Mkv, <<UHD>>)
        codec == Info(TRUE, TRUE, <<"VideoCodecNotSupported">>)
        acodec == Info(TRUE, TRUE, <<"AudioCodecNotSupported">>)
    IN  {Session("s1", UserBo, "Transcode", video, codec),
         Session("s3", UserBo, "Transcode", [video EXCEPT !.Path = None], acodec),
         Session("", Absent, "", NoItem, NoInfo)}

\* what GET /Sessions answers: a failure, or a list
SessionResponses ==
    {[ok |-> FALSE, sessions |-> <<>>]}
      \cup {[ok |-> TRUE, sessions |-> list] : list \in SeqUpTo(PolledSessions, MaxSessions)}

\* what GET /Items/{id} answers: a failure, or the item with its source
PolledDetails ==
    {Details(FALSE, FALSE, <<>>, <<>>),
     Details(TRUE, TRUE, << <<FHD>> >>, <<>>)}

\* CHECK_INTERVAL_SECONDS as configured: the default, and a negative number
Intervals == {30, -1}

Blank ==
    /\ srv = 1
    /\ sessions = <<>>
    /\ idx = 1
    /\ item_details = NoDetails
    /\ result = Skip
    /\ log = <<>>
    /\ fetches = <<>>
    /\ unhandled = <<>>
    /\ terminated = {}

Init ==
    /\ CHECK_INTERVAL_SECONDS \in Intervals
    /\ KILL_STREAMS \in BOOLEAN
    /\ CHECK_AUDIO_TRANSCODES = TRUE
    /\ ALLOW_CONTAINER_CHANGES = FALSE
    /\ IGNORE_STRM_FILES \in BOOLEAN
    /\ WHITELISTED_USERS = << <<"a","l">> >>
    /\ RESOLUTION_POLICY = "4K"
    /\ VIDEO_TRANSCODE_INDICATORS = DefaultVideoIndicators
    /\ AUDIO_TRANSCODE_INDICATORS = DefaultAudioIndicators
    /\ \E env \in ServerEnv : SERVERS = load_servers_from_env(env)
    /\ pc = "startup"
    /\ Blank

Next ==
    \/ Startup
    \/ \E response \in SessionResponses : CheckServer(response)
    \/ ProcessSession
    \/ \E details \in PolledDetails : GetItemDetails(details)
    \/ \E sent \in BOOLEAN : SendMessage(sent)
    \/ \E stopped \in BOOLEAN : StopPlayback(stopped)
    \/ ServerDone
    \/ CycleComplete
    \/ Interrupt

Spec == Init /\ [][Next]_vars

\* The program left to itself: no KeyboardInterrupt arrives, every remote
\* call returns or times out (timeout=10 / timeout=5 of the requests), and
\* the single thread of control takes its next step.
NextLive ==
    \/ Startup
    \/ \E response \in SessionResponses : CheckServer(response)
    \/ ProcessSession
    \/ \E details \in PolledDetails : GetItemDetails(details)
    \/ \E sent \in BOOLEAN : SendMessage(sent)
    \/ \E stopped \in BOOLEAN : StopPlayback(stopped)
    \/ ServerDone
    \/ CycleComplete

SpecLive == Init /\ [][NextLive]_vars /\ WF_vars(NextLive)

----------------------------------------------------------------------------
(* One session through the body of the session loop: SpecSession.          *)
(* The state after get_active_sessions returned a one-session list, for    *)
(* every session of RoutedSessions and every configuration.                *)

RoutedItems ==
    {NoItem}
      \cup {Item(TRUE, id, media_type, path, Mkv, streams) :
              id \in {"i1", ""}, media_type \in {"Video", "Audio", "Photo"},
              path \in {MkvPath, StrmPath, None},
              streams \in {<<UHD_HDR>>, <<AudioStream, FHD>>}}

RoutedInfos ==
    {NoInfo, Info(TRUE, TRUE, <<>>),
     Info(TRUE, TRUE, <<"VideoRangeNotSupported">>),
     Info(TRUE, TRUE, <<"AudioCodecNotSupported", "VideoCodecNotSupported">>)}

RoutedSessions ==
    {[Session("s1", user_name, play_method, item, info)
        EXCEPT !.PlayState.isNone = (play_method = "null")] :
        user_name \in {UserBo, UserAL},
        play_method \in {"Transcode", "DirectPlay", "", "null"},
        item \in RoutedItems, info \in RoutedInfos}
      \cup {Session("", UserBo, "Transcode",
                    Item(TRUE, "i1", "Video", MkvPath, Mkv, <<UHD_HDR>>),
                    Info(TRUE, TRUE, <<>>))}

RoutedDetails ==
    {Details(FALSE, FALSE, <<>>, <<>>),
     Details(TRUE, TRUE, << <<UHD>> >>, <<>>),
     Details(TRUE, TRUE, << <<FHD>> >>, <<>>)}

OneServer == <<[url |-> ServerUrl(1), api_key |-> "key", enabled |-> TRUE]>>

InitSession ==
    /\ CHECK_INTERVAL_SECONDS = 30
    /\ KILL_STREAMS \in BOOLEAN
    /\ CHECK_AUDIO_TRANSCODES \in BOOLEAN
    /\ ALLOW_CONTAINER_CHANGES = FALSE
    /\ IGNORE_STRM_FILES \in BOOLEAN
    /\ WHITELISTED_USERS \in {<<>>, << <<"b","O","B">>, <<"a","l">> >>}
    /\ RESOLUTION_POLICY \in {"4K", "ALL"}
    /\ \E choice \in IndicatorChoices :
          /\ VIDEO_TRANSCODE_INDICATORS = choice[1]
          /\ AUDIO_TRANSCODE_INDICATORS = choice[2]
    /\ SERVERS = OneServer
    /\ pc = "session"
    /\ srv = 1
    /\ \E session \in RoutedSessions : sessions = <<session>>
    /\ idx = 1
    /\ item_details = NoDetails
    /\ result = Skip
    /\ log = <<[kind |-> "fetch", url |-> OneServer[1].url,
                api_key |-> OneServer[1].api_key, idx |-> 0, sid |-> "",
                ok |-> TRUE]>>
    /\ fetches = <<1>>
    /\ unhandled = <<>>
    /\ terminated = {}

NextSession ==
    \/ ProcessSession
    \/ \E details \in RoutedDetails : GetItemDetails(details)
    \/ \E sent \in BOOLEAN : SendMessage(sent)
    \/ \E stopped \in BOOLEAN : StopPlayback(stopped)
    \/ ServerDone

SpecSession == InitSession /\ [][NextSession]_vars

----------------------------------------------------------------------------
(* The two decision functions on their own: SpecEval.                      *)
(* Init draws a transcoding session and a configuration; CheckVideo and    *)
(* CheckAudio apply check_video_transcode (to the answer of                *)
(* get_item_details) and check_audio_transcode and keep what they return.  *)

EvalStreams ==
    {Stream("Video", width, height, video_range) :
        width \in {0, 1920, 3840, NoneInt}, height \in {1080, 2160, NoneInt},
        video_range \in {SDR, <<"s","d","r">>, HDR10, <<>>, Absent, None}}

EvalDetails ==
    {Details(FALSE, FALSE, <<>>, <<>>),
     Details(TRUE, FALSE, <<>>, <<>>),
     Details(TRUE, TRUE, <<>>, <<>>),
     Details(TRUE, TRUE, <<>>, <<UHD>>),
     Details(TRUE, TRUE, << <<>> >>, <<UHD>>),
     Details(TRUE, TRUE, << <<AudioStream>> >>, <<>>),
     Details(TRUE, TRUE, << <<AudioStream, UHD_HDR>>, <<FHD>> >>, <<>>)}
      \cup {Details(TRUE, TRUE, << <<stream>> >>, <<>>) : stream \in EvalStreams}

EvalInfos ==
    {NoInfo, Info(TRUE, FALSE, Absent), Info(TRUE, TRUE, Absent),
     Info(TRUE, FALSE, <<>>)}
      \cup {Info(TRUE, TRUE, reasons) : reasons \in SeqUpTo(ReasonCodes, MaxReasons)}

EvalSessions ==
    {Session("s1", UserBo, "Transcode",
             Item(TRUE, id, media_type, MkvPath, Mkv, streams), info) :
        id \in {"i1", ""}, media_type \in {"Video", "Audio"},
        streams \in {<<>>, <<AudioStream, UHD_HDR>>}, info \in EvalInfos}

InitEval ==
    /\ CHECK_INTERVAL_SECONDS = 30
    /\ KILL_STREAMS = TRUE
    /\ CHECK_AUDIO_TRANSCODES = TRUE
    /\ ALLOW_CONTAINER_CHANGES \in BOOLEAN
    /\ IGNORE_STRM_FILES = FALSE
    /\ WHITELISTED_USERS = <<>>
    /\ RESOLUTION_POLICY \in {"4K", "1080P", "ALL", "720P"}
    /\ \E choice \in IndicatorChoices :
          /\ VIDEO_TRANSCODE_INDICATORS = choice[1]
          /\ AUDIO_TRANSCODE_INDICATORS = choice[2]
    /\ SERVERS = OneServer
    /\ \E session \in EvalSessions :
          /\ sessions = <<session>>
          /\ pc = IF session.NowPlayingItem.MediaType = "Video"
                  THEN "check_video" ELSE "check_audio"
    /\ srv = 1
    /\ idx = 1
    /\ item_details = NoDetails
    /\ result = Skip
    /\ log = <<>>
    /\ fetches = <<>>
    /\ unhandled = <<>>
    /\ terminated = {}

\* check_video_transcode(session, ...) with get_item_details answering
\* `details` (no request is made for a session without an item id)
CheckVideo(details) ==
    /\ pc = "check_video"
    /\ sessions[idx].NowPlayingItem.Id = "" => details = NoDetails
    /\ item_details' = details
    /\ result' = check_video_transcode(sessions[idx], user_name_of(sessions[idx]),
                                       details)
    /\ pc' = "returned"
    /\ UNCHANGED <<config, srv, sessions, idx, log, fetches, unhandled, terminated>>

\* check_audio_transcode(session, ...)
CheckAudio ==
    /\ pc = "check_audio"
    /\ result' = check_audio_transcode(sessions[idx], user_name_of(sessions[idx]))
    /\ pc' = "returned"
    /\ UNCHANGED <<config, srv, sessions, idx, item_details, log, fetches, unhandled,
                   terminated>>

NextEval ==
    \/ \E details \in EvalDetails : CheckVideo(details)
    \/ CheckAudio

SpecEval == InitEval /\ [][NextEval]_vars

----------------------------------------------------------------------------
(* Properties of the session loop, checked under SpecSession.              *)

\* the entries of the log that are commands sent to a session
Commands == {i \in DOMAIN log : log[i].kind \in {"message", "stop"}}

\* the session at position 1 has been through the loop body, which sent it
\* neither a lookup nor a command
PassedUntouched ==
    /\ pc = "session"
    /\ idx = 2
    /\ \A i \in DOMAIN log : log[i].kind = "fetch"

\* a session that check_video_transcode terminates when it reaches it with
\* the 4K source UHD: HDR source in the session, range reason, item id
ViolatingVideo(session) ==
    /\ session.Id # ""
    /\ session.NowPlayingItem.present
    /\ session.NowPlayingItem.Id # ""
    /\ session.NowPlayingItem.MediaType = "Video"
    /\ session.NowPlayingItem.Path = MkvPath
    /\ session.NowPlayingItem.MediaStreams = <<UHD_HDR>>
    /\ session.TranscodingInfo = Info(TRUE, TRUE, <<"VideoRangeNotSupported">>)

\* C1: a session whose PlayState.PlayMethod is not "Transcode" (DirectPlay,
\* DirectStream or absent) is never sent a message or a stop command, and
\* none is pending for it, whatever its media type, source, reasons or the
\* configuration.
C1_NonTranscodeNeverTerminated ==
    /\ \A i \in Commands :
          sessions[log[i].idx].PlayState.PlayMethod = "Transcode"
    /\ pc \in {"message", "stop"} =>
          sessions[idx].PlayState.PlayMethod = "Transcode"

\* C1 witness: a video session with PlayMethod absent, an HDR 4K source and
\* a range reason went through the loop body under KILL_STREAMS untouched.
C1_Witness ==
    /\ PassedUntouched
    /\ KILL_STREAMS
    /\ WHITELISTED_USERS = <<>>
    /\ ViolatingVideo(sessions[1])
    /\ ~sessions[1].PlayState.isNone
    /\ sessions[1].PlayState.PlayMethod = ""

\* the user name the loop reads equals an entry of WHITELISTED_USERS when
\* letter case is ignored
WhitelistedIgnoringCase(session) ==
    \E i \in DOMAIN WHITELISTED_USERS :
        upper(WHITELISTED_USERS[i]) = upper(get(session.UserName, UnknownUser))

\* C2: a session whose user name equals, ignoring letter case, an entry of
\* WHITELISTED_USERS is skipped: no metadata lookup, decision, message,
\* dry-run line or stop command is issued for it, and none is pending.
C2_WhitelistedSkipped ==
    /\ \A i \in DOMAIN log :
          log[i].kind # "fetch" => ~WhitelistedIgnoringCase(sessions[log[i].idx])
    /\ pc \in {"lookup", "message", "stop"} => ~WhitelistedIgnoringCase(sessions[idx])

\* C2 witness: the user "AL" is whitelisted as "al"; the user's transcoding
\* HDR 4K video session went through the loop body untouched.
C2_Witness ==
    /\ PassedUntouched
    /\ KILL_STREAMS
    /\ sessions[1].UserName = UserAL
    /\ contains(WHITELISTED_USERS, <<"a","l">>)
    /\ ViolatingVideo(sessions[1])
    /\ ~sessions[1].PlayState.isNone
    /\ sessions[1].PlayState.PlayMethod = "Transcode"

\* C7: when CHECK_AUDIO_TRANSCODES is false no audio session is sent a
\* message or a stop command, and no decision is taken for it.
C7_AudioUncheckedNeverTerminated ==
    ~CHECK_AUDIO_TRANSCODES =>
        /\ \A i \in DOMAIN log :
              log[i].kind # "fetch" =>
                  sessions[log[i].idx].NowPlayingItem.MediaType # "Audio"
        /\ pc \in {"message", "stop"} =>
              sessions[idx].NowPlayingItem.MediaType # "Audio"

\* C7 witness: with CHECK_AUDIO_TRANSCODES false, a transcoding audio
\* session whose reasons hold an audio indicator went through untouched.
C7_Witness ==
    /\ PassedUntouched
    /\ ~CHECK_AUDIO_TRANSCODES
    /\ KILL_STREAMS
    /\ WHITELISTED_USERS = <<>>
    /\ sessions[1].NowPlayingItem.present
    /\ sessions[1].NowPlayingItem.MediaType = "Audio"
    /\ sessions[1].NowPlayingItem.Path = MkvPath
    /\ ~sessions[1].PlayState.isNone
    /\ sessions[1].PlayState.PlayMethod = "Transcode"
    /\ "AudioCodecNotSupported" \in AUDIO_TRANSCODE_INDICATORS
    /\ contains(transcode_reasons(sessions[1]), "AudioCodecNotSupported")

\* C8: under KILL_STREAMS a Terminate decision is followed by the message
\* attempt, every message attempt (sent or failed) is followed by the stop
\* attempt for the same session, and every stop attempt directly follows a
\* message attempt for the same session.
C8_MessageThenStop ==
    KILL_STREAMS =>
        \A i \in DOMAIN log :
            /\ (log[i].kind = "decision" /\ log[i].ok) =>
                  IF i < Len(log)
                  THEN log[i+1].kind = "message" /\ log[i+1].idx = log[i].idx
                  ELSE pc = "message" /\ idx = log[i].idx
            /\ log[i].kind = "message" =>
                  IF i < Len(log)
                  THEN log[i+1].kind = "stop" /\ log[i+1].idx = log[i].idx
                  ELSE pc = "stop" /\ idx = log[i].idx
            /\ log[i].kind = "stop" =>
                  /\ i > 1
                  /\ log[i-1].kind = "message"
                  /\ log[i-1].idx = log[i].idx

\* C8 witness: the message delivery failed and the stop command was
\* attempted all the same.
C8_Witness ==
    /\ KILL_STREAMS
    /\ \E i \in DOMAIN log :
          /\ log[i].kind = "message"
          /\ ~log[i].ok
          /\ i < Len(log)
          /\ log[i+1].kind = "stop"

\* C9: when KILL_STREAMS is false no message call and no stop call is
\* issued or pending, and every Terminate decision is directly followed by
\* the would-terminate (dry run) line for the same session.
C9_DryRunSendsNothing ==
    ~KILL_STREAMS =>
        /\ Commands = {}
        /\ pc \notin {"message", "stop"}
        /\ \A i \in DOMAIN log :
              (log[i].kind = "decision" /\ log[i].ok) <=>
                  /\ i < Len(log)
                  /\ log[i+1].kind = "dry_run"
                  /\ log[i+1].idx = log[i].idx

\* C9 witness: a dry run in which the lookup was made, the decision was
\* Terminate and the would-terminate line was recorded.
C9_Witness ==
    /\ ~KILL_STREAMS
    /\ pc = "session"
    /\ \E i \in DOMAIN log : log[i].kind = "lookup"
    /\ \E i \in DOMAIN log : log[i].kind = "decision" /\ log[i].ok
    /\ \E i \in DOMAIN log : log[i].kind = "dry_run"

----------------------------------------------------------------------------
(* Properties of check_video_transcode, checked under SpecEval.            *)

\* check_video_transcode has returned for a session with an item id, and
\* found a video stream in the streams it chose
SourceFound ==
    /\ pc = "returned"
    /\ sessions[1].NowPlayingItem.MediaType = "Video"
    /\ sessions[1].NowPlayingItem.Id # ""
    /\ has_video_stream(media_streams(sessions[1], item_details))

\* the stream it took the source resolution and range from
SourceStream == original_video_stream(media_streams(sessions[1], item_details))

\* the source width reaches its target, or else the source height does
\* (a null width, or a null height that has to be compared, reaches nothing)
GateMet ==
    /\ SourceStream.Width # NoneInt
    /\ \/ SourceStream.Width >= RESOLUTION_THRESHOLDS(RESOLUTION_POLICY)[1]
       \/ /\ SourceStream.Height # NoneInt
          /\ SourceStream.Height >= RESOLUTION_THRESHOLDS(RESOLUTION_POLICY)[2]

\* the source has a width and a height, and both are below their targets
GateFailed ==
    /\ SourceStream.Width # NoneInt
    /\ SourceStream.Height # NoneInt
    /\ SourceStream.Width < RESOLUTION_THRESHOLDS(RESOLUTION_POLICY)[1]
    /\ SourceStream.Height < RESOLUTION_THRESHOLDS(RESOLUTION_POLICY)[2]

\* the source stream carries a video range, and it is not SDR in any
\* letter case (a missing VideoRange key is read as "SDR", line 192)
SourceNotSDR ==
    LET video_range == get(SourceStream.VideoRange, SDR)
    IN  /\ video_range \notin {None, <<>>}
        /\ lower(video_range) # <<"s","d","r">>

HasRangeReason ==
    \/ contains(transcode_reasons(sessions[1]), "VideoRangeNotSupported")
    \/ contains(transcode_reasons(sessions[1]), "VideoRangeTypeNotSupported")

\* C3: for a transcoding video session that meets the resolution threshold,
\* whose source video range is not SDR and whose reasons contain
\* VideoRangeNotSupported or VideoRangeTypeNotSupported,
\* check_video_transcode returns terminate = true, for every
\* ALLOW_CONTAINER_CHANGES and every VIDEO_TRANSCODE_INDICATORS.
C3_HdrOverrideTerminates ==
    (SourceFound /\ GateMet /\ SourceNotSDR /\ HasRangeReason) =>
        (~result.raised /\ result.terminate)

\* C3 witness: an HDR10 source over the threshold with a range reason is
\* terminated although the indicator list holds neither range reason and
\* container changes are allowed.
C3_Witness ==
    /\ SourceFound /\ GateMet /\ SourceNotSDR /\ HasRangeReason
    /\ SourceStream.VideoRange = HDR10
    /\ ALLOW_CONTAINER_CHANGES
    /\ "VideoRangeNotSupported" \notin VIDEO_TRANSCODE_INDICATORS
    /\ "VideoRangeTypeNotSupported" \notin VIDEO_TRANSCODE_INDICATORS
    /\ transcode_reasons(sessions[1]) = <<"VideoRangeTypeNotSupported">>
    /\ result.terminate

\* a reason of the session that the container filter leaves and that is
\* in VIDEO_TRANSCODE_INDICATORS
TriggerRemains ==
    \E i \in DOMAIN transcode_reasons(sessions[1]) :
        LET reason == transcode_reasons(sessions[1])[i]
        IN  /\ reason \in VIDEO_TRANSCODE_INDICATORS
            /\ ALLOW_CONTAINER_CHANGES =>
                  reason \notin {"ContainerNotSupported", "ContainerBitrateExceedsLimit"}

\* C4: for a transcoding video session that meets the threshold, has a
\* non-empty reasons list and does not match the HDR override, the decision
\* is Terminate exactly when a reason that remains after the container
\* filter is in VIDEO_TRANSCODE_INDICATORS.  In particular
\* [ContainerNotSupported] with ALLOW_CONTAINER_CHANGES gives Skip, and a
\* 3840x2160 SDR source with [VideoCodecNotSupported], an indicator, under
\* the 4K policy gives Terminate.
C4_TriggerAfterContainerFilter ==
    (SourceFound /\ GateMet /\ transcode_reasons(sessions[1]) # <<>>) =>
        /\ ~result.raised
        /\ ~(SourceNotSDR /\ HasRangeReason) => (result.terminate <=> TriggerRemains)
        /\ (/\ ALLOW_CONTAINER_CHANGES
            /\ transcode_reasons(sessions[1]) = <<"ContainerNotSupported">>)
              => ~result.terminate
        /\ (/\ RESOLUTION_POLICY = "4K"
            /\ SourceStream = UHD
            /\ transcode_reasons(sessions[1]) = <<"VideoCodecNotSupported">>
            /\ "VideoCodecNotSupported" \in VIDEO_TRANSCODE_INDICATORS)
              => result.terminate

\* C4 witness: container changes are allowed, ContainerNotSupported is an
\* indicator and the only reason of a session over the threshold: Skip.
C4_Witness ==
    /\ SourceFound /\ GateMet
    /\ ALLOW_CONTAINER_CHANGES
    /\ "ContainerNotSupported" \in VIDEO_TRANSCODE_INDICATORS
    /\ transcode_reasons(sessions[1]) = <<"ContainerNotSupported">>
    /\ result = Skip

\* C5: the resolution gate passes exactly when source width >= TARGET_WIDTH
\* or source height >= TARGET_HEIGHT: a session below both targets is
\* skipped whatever its range and reasons, and a session that reaches one
\* of them is terminated by the empty-reasons fail-safe.
C5_ResolutionGate ==
    SourceFound =>
        /\ GateFailed => result = Skip
        /\ (GateMet /\ truthy_info(sessions[1].TranscodingInfo)
                    /\ transcode_reasons(sessions[1]) = <<>>) => result.terminate

\* C5 witness: a 1920x1080 HDR10 source with a range reason under the 4K
\* policy is skipped.
C5_Witness ==
    /\ SourceFound
    /\ RESOLUTION_POLICY = "4K"
    /\ SourceStream = Stream("Video", 1920, 1080, HDR10)
    /\ HasRangeReason
    /\ "VideoRangeNotSupported" \in VIDEO_TRANSCODE_INDICATORS
    /\ result = Skip

\* C6: for a transcoding video session that meets the threshold, a
\* transcoding-info block with an empty reasons list gives Terminate, for
\* every ALLOW_CONTAINER_CHANGES and VIDEO_TRANSCODE_INDICATORS; with no
\* transcoding-info block the fail-safe does not fire (Skip).
C6_EmptyReasonsFailSafe ==
    (SourceFound /\ GateMet) =>
        /\ (/\ sessions[1].TranscodingInfo.present
            /\ sessions[1].TranscodingInfo.TranscodeReasons = <<>>)
              => (~result.raised /\ result.terminate)
        /\ ~sessions[1].TranscodingInfo.present => result = Skip

\* C6 witness: a block with an empty reasons list, container changes
\* allowed and an indicator list of ContainerNotSupported alone: Terminate.
C6_Witness ==
    /\ SourceFound /\ GateMet
    /\ sessions[1].TranscodingInfo = Info(TRUE, TRUE, <<>>)
    /\ ALLOW_CONTAINER_CHANGES
    /\ VIDEO_TRANSCODE_INDICATORS = {"ContainerNotSupported"}
    /\ result.terminate

----------------------------------------------------------------------------
(* Properties of the whole program, checked under Spec.                    *)

InPass == {"session", "lookup", "message", "stop"}

\* C10: within one server's pass a failure while processing one session
\* (lookup, message or stop failure, or a malformed session object) does
\* not stop the processing of the sessions that follow it in the fetched
\* list: while a session that is not the last one is being processed, a
\* step of the program (other than the interrupt) stays in the loop over
\* the same list, at this session or at the next one.
C10_LaterSessionsProcessed ==
    [][(pc \in InPass /\ idx < Len(sessions) /\ pc' # "stopped") =>
           (pc' \in InPass /\ sessions' = sessions /\ idx' \in {idx, idx + 1})]_vars

\* the positions of the scheduler loop
InLoop == InPass \cup {"cycle"}

\* server i of SERVERS is enabled and its API key is neither empty nor a
\* placeholder
Usable(i) ==
    /\ SERVERS[i].enabled
    /\ SERVERS[i].api_key # ""
    /\ SERVERS[i].api_key \notin PlaceholderKeys

\* C11: an exception raised while one server is processed is caught at the
\* per-server boundary: the program is still in the scheduler loop after
\* it, and every usable server that the loop over SERVERS has passed in
\* this cycle had its sessions fetched, the servers after a raising one
\* included.
C11_ServerExceptionCaught ==
    /\ unhandled # <<>> => pc \in InLoop
    /\ \A k \in DOMAIN unhandled : contains(fetches, unhandled[k])
    /\ \A i \in DOMAIN SERVERS : (i < srv /\ Usable(i)) => contains(fetches, i)

\* C11 witness: the pass over server 1 raised, server 2 was fetched in the
\* same cycle, and the loop over SERVERS is at its end, about to start the
\* next cycle.
C11_Witness ==
    /\ pc = "cycle"
    /\ srv > Len(SERVERS)
    /\ unhandled = <<1>>
    /\ fetches = <<1, 2>>

----------------------------------------------------------------------------
(* Properties of the scheduler loop, checked under Spec.                   *)

\* with no enabled server the program leaves "startup" for "exited" only,
\* and no remote call was ever issued
NoServersNoPolling ==
    /\ Cardinality({i \in DOMAIN SERVERS : SERVERS[i].enabled}) = 0 =>
          /\ pc \in {"startup", "exited"}
          /\ log = <<>>
          /\ fetches = <<>>
    /\ pc = "exited" => Cardinality({i \in DOMAIN SERVERS : SERVERS[i].enabled}) = 0

\* a step that leaves the scheduler loop is the external interrupt
LoopLeftByInterruptOnly ==
    (pc \in InLoop /\ pc' \notin InLoop) => pc' = "stopped"

\* C13: if no server is enabled at startup the process exits before the
\* scheduler loop starts and no session fetch, metadata lookup, message or
\* stop command is ever issued; once the loop has started it exits only on
\* an external interrupt.
C13_ExitsOnlyAtStartupOrOnInterrupt ==
    []NoServersNoPolling /\ [][LoopLeftByInterruptOnly]_vars

----------------------------------------------------------------------------
(* Properties of check_video_transcode under the ALL policy (SpecEval).    *)

\* check_video_transcode has returned a decision for a video session with
\* an item id
VideoDecided ==
    /\ pc = "returned"
    /\ sessions[1].NowPlayingItem.MediaType = "Video"
    /\ sessions[1].NowPlayingItem.Id # ""
    /\ ~result.raised

\* what the three rules give without the resolution gate: the empty-reasons
\* fail-safe, the HDR override, or a trigger reason left by the container
\* filter
RulesTerminate ==
    \/ /\ truthy_info(sessions[1].TranscodingInfo)
       /\ transcode_reasons(sessions[1]) = <<>>
    \/ /\ has_video_stream(media_streams(sessions[1], item_details))
       /\ SourceNotSDR
       /\ HasRangeReason
    \/ TriggerRemains

\* C14: under the ALL policy a transcoding video session is never skipped
\* for resolution reasons: whatever source is resolved (missing width or
\* height, or no source video stream at all) the decision is Terminate
\* exactly when the fail-safe, the HDR override or the trigger-reason rule
\* says so.
C14_AllPolicyNeverSkipsForResolution ==
    (VideoDecided /\ RESOLUTION_POLICY = "ALL") =>
        (result.terminate <=> RulesTerminate)

\* the lookup failed, or answered an item without media sources and without
\* media streams
NoStreamMetadata ==
    \/ ~item_details.ok
    \/ item_details.MediaSources = <<>> /\ item_details.MediaStreams = <<>>

\* the streams embedded in the session's own NowPlayingItem
EmbeddedStreams == sessions[1].NowPlayingItem.MediaStreams

\* C15: when the metadata lookup of a video session fails, or succeeds
\* without stream metadata, the decision is taken on the first video stream
\* embedded in the session's NowPlayingItem: a session without an embedded
\* video stream is skipped, and one whose embedded video stream meets the
\* threshold is terminated by the empty-reasons fail-safe, with that
\* stream's resolution in the reason.
C15_FallbackToSessionStreams ==
    (VideoDecided /\ NoStreamMetadata) =>
        /\ ~has_video_stream(EmbeddedStreams) => result = Skip
        /\ (/\ has_video_stream(EmbeddedStreams)
            /\ original_video_stream(EmbeddedStreams).Width
                  >= RESOLUTION_THRESHOLDS(RESOLUTION_POLICY)[1]
            /\ truthy_info(sessions[1].TranscodingInfo)
            /\ transcode_reasons(sessions[1]) = <<>>)
              => /\ result.terminate
                 /\ result.reason.width = original_video_stream(EmbeddedStreams).Width

----------------------------------------------------------------------------
(* Properties of check_audio_transcode, checked under SpecEval.            *)

\* check_audio_transcode has returned for a transcoding audio session
AudioDecided ==
    /\ pc = "returned"
    /\ sessions[1].NowPlayingItem.MediaType = "Audio"

\* C16: for a transcoding audio session the decision is Terminate exactly
\* when the transcoding-info block is present (a non-empty object) with an
\* empty or missing reasons list, or some reason is in
\* AUDIO_TRANSCODE_INDICATORS; the session's streams, the resolution
\* policy, ALLOW_CONTAINER_CHANGES and VIDEO_TRANSCODE_INDICATORS have no
\* part in it.
C16_AudioDecision ==
    AudioDecided =>
        /\ ~result.raised
        /\ result.terminate <=>
              \/ /\ truthy_info(sessions[1].TranscodingInfo)
                 /\ get(sessions[1].TranscodingInfo.TranscodeReasons, <<>>) = <<>>
              \/ /\ truthy_info(sessions[1].TranscodingInfo)
                 /\ \E i \in DOMAIN get(sessions[1].TranscodingInfo.TranscodeReasons, <<>>) :
                       sessions[1].TranscodingInfo.TranscodeReasons[i]
                           \in AUDIO_TRANSCODE_INDICATORS

\* C16 witness: an audio session without any stream, whose only reason is
\* ContainerNotSupported, an audio indicator, is terminated although
\* container changes are allowed.
C16_Witness ==
    /\ AudioDecided
    /\ ALLOW_CONTAINER_CHANGES
    /\ EmbeddedStreams = <<>>
    /\ transcode_reasons(sessions[1]) = <<"ContainerNotSupported">>
    /\ "ContainerNotSupported" \in AUDIO_TRANSCODE_INDICATORS
    /\ result.terminate
    /\ result.reason.kind = "audio"

----------------------------------------------------------------------------
(* Properties of the scheduler loop left to itself, checked under SpecLive.*)

\* the loop over SERVERS has taken every server of the cycle
CycleEnd == pc = "cycle" /\ srv > Len(SERVERS)

\* a cycle begins
CycleStart == pc = "cycle" /\ srv = 1

\* the number of session-list fetches of server i in the current cycle
FetchCount(i) == Cardinality({k \in DOMAIN fetches : fetches[k] = i})

\* C17: with every remote call returning or timing out and no interrupt,
\* every polling cycle completes and is followed by another one, for ever;
\* in every cycle each enabled server is taken once, whatever failed on it
\* or on other servers before (its sessions are fetched once when its API
\* key is usable).
C17_CyclesForever ==
    /\ (SERVERS # <<>>) => ([]<>CycleEnd /\ []<>CycleStart)
    /\ [](CycleEnd => \A i \in DOMAIN SERVERS : Usable(i) => FetchCount(i) = 1)

----------------------------------------------------------------------------
(* Properties of the remote calls of a cycle, checked under Spec.          *)

\* the number of calls of one kind issued for the session at position i of
\* the fetched list
CallCount(kind, i) ==
    Cardinality({k \in DOMAIN log : log[k].kind = kind /\ log[k].idx = i})

\* C18: no remote call is retried within a cycle: each server's session
\* list is fetched at most once per cycle, and each session of the fetched
\* list gets at most one metadata lookup, one message call and one stop
\* call, whether the calls succeed or fail.
C18_NoRetry ==
    /\ \A i \in DOMAIN SERVERS : FetchCount(i) <= 1
    /\ Cardinality({k \in DOMAIN log : log[k].kind = "fetch"}) <= 1
    /\ \A i \in DOMAIN sessions :
          \A kind \in {"lookup", "message", "stop"} : CallCount(kind, i) <= 1

\* C18 witness: the lookup, the message and the stop of the first session
\* all failed, each was issued once, and the loop is at the next session.
C18_Witness ==
    /\ pc = "session"
    /\ idx = 2
    /\ \A kind \in {"lookup", "message", "stop"} :
          /\ CallCount(kind, 1) = 1
          /\ \A k \in DOMAIN log : log[k].kind = kind => ~log[k].ok

----------------------------------------------------------------------------
(* Properties of the metadata lookup, checked under SpecSession.           *)

\* the session's item is a .strm file: its path ends in ".strm" or its
\* container is "strm", in any letter case
StrmItem(session) ==
    LET path == get(session.NowPlayingItem.Path, <<>>)
        container == get(session.NowPlayingItem.Container, <<>>)
    IN  \/ path # None /\ endswith(upper(path), <<".","S","T","R","M">>)
        \/ container # None /\ upper(container) = <<"S","T","R","M">>

\* the session reaches the video rule
ReachesVideoRule(session) ==
    /\ session.Id # ""
    /\ session.NowPlayingItem.present
    /\ ~WhitelistedIgnoringCase(session)
    /\ ~(IGNORE_STRM_FILES /\ StrmItem(session))
    /\ session.NowPlayingItem.MediaType = "Video"
    /\ session.PlayState.PlayMethod = "Transcode"

\* C19: a metadata lookup is issued, or pending, only for a session that
\* reaches the video rule: never for a whitelisted user's session, a .strm
\* session under IGNORE_STRM_FILES, a session that is not transcoding, an
\* audio session or a session of another media type.
C19_LookupOnlyForVideoRule ==
    /\ \A k \in DOMAIN log :
          log[k].kind = "lookup" => ReachesVideoRule(sessions[log[k].idx])
    /\ pc = "lookup" => ReachesVideoRule(sessions[idx])

\* C19 witness: a transcoding audio session was decided and terminated
\* under CHECK_AUDIO_TRANSCODES, and no lookup was issued for it.
C19_Witness ==
    /\ pc = "session"
    /\ idx = 2
    /\ sessions[1].NowPlayingItem.MediaType = "Audio"
    /\ CallCount("stop", 1) = 1
    /\ CallCount("lookup", 1) = 0

----------------------------------------------------------------------------
(* Properties of the API-key check, checked under Spec.                    *)

\* no remote call of the cycle went, or is going, to a server whose API
\* key is empty or a placeholder; the usable servers before the current
\* one were fetched
NoCallWithoutCredential ==
    /\ \A i \in DOMAIN SERVERS : ~Usable(i) => FetchCount(i) = 0
    /\ \A k \in DOMAIN log :
          log[k].api_key # "" /\ log[k].api_key \notin PlaceholderKeys
    /\ pc \in InPass => Usable(srv)
    /\ \A i \in DOMAIN SERVERS : (i < srv /\ Usable(i)) => FetchCount(i) = 1

\* whenever the loop over SERVERS comes to a server without a usable key,
\* in the first cycle or a later one, the program's step issues no call
\* and goes to the next server; the list of servers never changes
SkippedForThisCycleOnly ==
    /\ SERVERS' = SERVERS
    /\ (pc = "cycle" /\ srv \in DOMAIN SERVERS /\ ~Usable(srv) /\ pc' # "stopped") =>
          /\ pc' = "cycle"
          /\ srv' = srv + 1
          /\ fetches' = fetches
          /\ log' = <<>>

\* C20: a server whose API key is absent or a known placeholder receives
\* no remote call in the cycle (no fetch, lookup, message or stop), the
\* other servers are processed in the same cycle, and the key is checked
\* again each time the loop comes to the server.
C20_UnconfiguredServerSkipped ==
    []NoCallWithoutCredential /\ [][SkippedForThisCycleOnly]_vars

\* C20 witness: a cycle is complete in which server 1, with a placeholder
\* key, was skipped and server 2 was fetched.
C20_Witness ==
    /\ CycleEnd
    /\ Len(SERVERS) = 2
    /\ SERVERS[1].api_key \in PlaceholderKeys
    /\ fetches = <<2>>

----------------------------------------------------------------------------
(* Properties of successive cycles, checked under Spec.                    *)

\* a cycle starts with nothing but the configuration: every local of the
\* previous cycle is gone
StatelessCycleStart ==
    CycleStart =>
        /\ sessions = <<>>
        /\ idx = 1
        /\ item_details = NoDetails
        /\ result = Skip
        /\ log = <<>>
        /\ fetches = <<>>
        /\ unhandled = <<>>

\* the session is reported as a violating transcode: a transcoding video
\* of a user who is not whitelisted, with an item id, an embedded 3840x2160
\* stream and the reason VideoCodecNotSupported, under the 4K policy and
\* the default indicators
ReportedViolating(session) ==
    /\ session.Id # ""
    /\ session.NowPlayingItem.present
    /\ session.NowPlayingItem.Id # ""
    /\ session.NowPlayingItem.MediaType = "Video"
    /\ session.NowPlayingItem.Path = MkvPath
    /\ session.NowPlayingItem.MediaStreams = <<UHD>>
    /\ session.PlayState.PlayMethod = "Transcode"
    /\ session.TranscodingInfo = Info(TRUE, TRUE, <<"VideoCodecNotSupported">>)
    /\ ~WhitelistedIgnoringCase(session)
    /\ RESOLUTION_POLICY = "4K"
    /\ "VideoCodecNotSupported" \in VIDEO_TRANSCODE_INDICATORS

\* the decision at position k of the log was taken for a session reported
\* as violating whose lookup failed (the embedded stream is the source)
ViolationDecidedAt(k) ==
    /\ log[k].kind = "decision"
    /\ k > 1
    /\ log[k-1].kind = "lookup"
    /\ log[k-1].idx = log[k].idx
    /\ ~log[k-1].ok
    /\ ReportedViolating(sessions[log[k].idx])

\* under KILL_STREAMS the stop for the decision at position k of the log
\* was requested, or is the next request of the program
StopFollows(k) ==
    \/ k = Len(log) /\ pc = "message" /\ idx = log[k].idx
    \/ k + 1 = Len(log) /\ log[k+1].kind = "message" /\ pc = "stop"
                        /\ idx = log[k].idx
    \/ /\ k + 2 <= Len(log)
       /\ log[k+2].kind = "stop"
       /\ log[k+2].idx = log[k].idx

\* C21: cycles are stateless: a cycle starts from the configuration alone,
\* and the decision for a session reported as violating is Terminate, with
\* the stop command following under KILL_STREAMS, in every cycle, whether
\* or not a stop was requested for that session in an earlier cycle.
C21_CyclesStateless ==
    /\ StatelessCycleStart
    /\ \A k \in DOMAIN log :
          ViolationDecidedAt(k) =>
              /\ log[k].ok
              /\ KILL_STREAMS => StopFollows(k)

\* C21 witness: a stop was requested in an earlier cycle for the first
\* session of this server; the session is reported as violating again and
\* the program is about to request the stop again.
C21_Witness ==
    /\ pc = "stop"
    /\ idx = 1
    /\ [url |-> SERVERS[srv].url, sid |-> sessions[1].Id] \in terminated
    /\ ViolationDecidedAt(Len(log) - 1)

----------------------------------------------------------------------------
(* Properties of the addressing of commands, checked under Spec.           *)

\* C22: every message and stop command goes to the server whose session
\* list was fetched in the current pass of the current cycle, with that
\* server's URL and API key, and to the id of a session of that list that
\* has a non-empty Id and a NowPlayingItem.
C22_CommandsAddressed ==
    \A k \in Commands :
        /\ pc \in InPass
        /\ contains(fetches, srv)
        /\ log[1].kind = "fetch" /\ log[1].ok
        /\ log[k].url = log[1].url /\ log[k].api_key = log[1].api_key
        /\ log[k].url = SERVERS[srv].url /\ log[k].api_key = SERVERS[srv].api_key
        /\ \A i \in DOMAIN SERVERS : i # srv => log[k].url # SERVERS[i].url
        /\ log[k].idx \in DOMAIN sessions
        /\ log[k].sid = sessions[log[k].idx].Id
        /\ log[k].sid # ""
        /\ sessions[log[k].idx].NowPlayingItem.present

\* C22 witness: with two servers, both fetched in this cycle, a stop
\* command went to the second one for a session of its list.
C22_Witness ==
    /\ Len(SERVERS) = 2
    /\ srv = 2
    /\ fetches = <<1, 2>>
    /\ \E k \in Commands :
          /\ log[k].kind = "stop"
          /\ log[k].url = SERVERS[2].url
          /\ log[k].sid = sessions[log[k].idx].Id

====
